---- MODULE Spec2Model ----
(***************************************************************************)
(* Model of trader/api_utils.go: the OANDA pricing / market-order client.  *)
(* The program is sequential; its nondeterminism is the environment: the   *)
(* contents of config.json at each read, the outcome of each HTTP round    *)
(* trip, and (for the function-level specifications) the arguments.        *)
(***************************************************************************)
EXTENDS Integers, Sequences, FiniteSets, TLC

VARIABLES pc, instruments, creds, resp, pricesResponse, pricesErr,
          order, orderResponse, orderErr, trace

vars == <<pc, instruments, creds, resp, pricesResponse, pricesErr,
          order, orderResponse, orderErr, trace>>

(* ------------------------------ bounds --------------------------------- *)
\* most price records in one pricing payload
MaxPrices == 2
\* most bid levels / ask levels in one price record
MaxLevels == 2
\* largest magnitude of a unit count passed to placeMarketOrder
MaxUnits == 12

(* ----------------------------- constants ------------------------------- *)
baseURL == "https://api-fxpractice.oanda.com"
pricingEndpoint == <<"/v3/accounts/", "{accountID}", "/pricing">>
orderEndpoint == <<"/v3/accounts/", "{accountID}", "/orders">>

\* A Go pointer or slice-of-one is a sequence of length <= 1; nil is <<>>.
NoErr == [kind |-> "none", code |-> 0]
Err(k) == [kind |-> k, code |-> 0]

(* ------------------------------ float32 -------------------------------- *)
\* A finite float32 is the dyadic rational (-1)^neg * m / 2^e.
Fin(neg, m, e) == [cls |-> "fin", neg |-> neg, m |-> m, e |-> e]
NaN == [cls |-> "nan", neg |-> FALSE, m |-> 0, e |-> 0]
Inf(neg) == [cls |-> "inf", neg |-> neg, m |-> 0, e |-> 0]

\* encoding/json's `price,string` decoding: the decimal text of the wire and
\* the float32 nearest to it.
ParseFloat32 ==
    [t \in {"1.2", "1.25", "0.015625", "0.046875", "130.5", "0.99999988"} |->
        CASE t = "1.2" -> Fin(FALSE, 10066330, 23)
          [] t = "1.25" -> Fin(FALSE, 5, 2)
          [] t = "0.015625" -> Fin(FALSE, 1, 6)
          [] t = "0.046875" -> Fin(FALSE, 3, 6)
          [] t = "130.5" -> Fin(FALSE, 261, 1)
          [] t = "0.99999988" -> Fin(FALSE, 8388607, 23)]

(* --------------------------- fmt.Sprintf ------------------------------- *)
DigitChar == <<"0", "1", "2", "3", "4", "5", "6", "7", "8", "9">>

RECURSIVE IntText(_)
IntText(n) ==
    IF n < 10 THEN <<DigitChar[n + 1]>>
    ELSE IntText(n \div 10) \o <<DigitChar[(n % 10) + 1]>>

\* fmt.Sprintf("%d", units)
SprintfD(n) == IF n < 0 THEN <<"-">> \o IntText(-n) ELSE IntText(n)

\* k steps of long division of r/den (r < den): the k digits as a number,
\* and the remainder.
RECURSIVE LongDiv(_, _, _, _)
LongDiv(r, den, k, acc) ==
    IF k = 0 THEN [frac |-> acc, rem |-> r]
    ELSE LongDiv((r * 10) % den, den, k - 1, acc * 10 + ((r * 10) \div den))

Pad5(f) ==
    << DigitChar[(f \div 10000) + 1], DigitChar[((f \div 1000) % 10) + 1],
       DigitChar[((f \div 100) % 10) + 1], DigitChar[((f \div 10) % 10) + 1],
       DigitChar[(f % 10) + 1] >>

SprintfF5Trunc(v) ==
    IF v.cls = "nan" THEN <<"N", "a", "N">>
    ELSE IF v.cls = "inf"
    THEN (IF v.neg THEN <<"-", "I", "n", "f">> ELSE <<"+", "I", "n", "f">>)
    ELSE LET den == 2 ^ v.e
             ld == LongDiv(v.m % den, den, 5, 0)
         IN (IF v.neg THEN <<"-">> ELSE <<>>)
              \o IntText(v.m \div den) \o <<".">> \o Pad5(ld.frac)

\* fmt.Sprintf("%.5f", priceBound): exact decimal expansion rounded to five
\* places, ties to even; NaN and the infinities have no digits.
SprintfF5(v) ==
    IF v.cls = "nan" THEN <<"N", "a", "N">>
    ELSE IF v.cls = "inf"
    THEN (IF v.neg THEN <<"-", "I", "n", "f">> ELSE <<"+", "I", "n", "f">>)
    ELSE LET den == 2 ^ v.e
             ip == v.m \div den
             ld == LongDiv(v.m % den, den, 5, 0)
             up == IF 2 * ld.rem > den \/ (2 * ld.rem = den /\ ld.frac % 2 = 1)
                   THEN 1 ELSE 0
             n5 == ld.frac + up
         IN (IF v.neg THEN <<"-">> ELSE <<>>)
              \o IntText(ip + (n5 \div 100000)) \o <<".">> \o Pad5(n5 % 100000)

(* -------------------------- data on the wire --------------------------- *)
SeqsUpTo(S, n) == UNION {[1..k -> S] : k \in 0..n}

\* the driver's instrument list
ExampleInstruments == <<"GBP_USD", "EUR_GBP", "GBP_JPY">>

\* instruments the remote end quotes in the modelled payloads
QuotedInstruments == <<"GBP_USD", "EUR_GBP">>

PriceTexts == <<"1.2", "1.25", "0.015625", "0.046875", "130.5", "0.99999988">>

\* The order book of instrument j: level k of the bids and of the asks, as
\* the wire's decimal texts.  Successive levels differ, and so do the bid and
\* the ask of one level.
BidText(j, k) == PriceTexts[((2 * j + k) % 6) + 1]
AskText(j, k) == PriceTexts[((2 * j + k + 3) % 6) + 1]

\* whether the market of quoted instrument j is open
QuotedTradeable == <<TRUE, FALSE>>

WireRecords ==
    { [instrument |-> QuotedInstruments[j], tradeable |-> QuotedTradeable[j],
       bids |-> [k \in 1..nb |-> [price |-> BidText(j, k)]],
       asks |-> [k \in 1..na |-> [price |-> AskText(j, k)]]] :
      j \in 1..Len(QuotedInstruments),
      nb \in 0..MaxLevels, na \in 0..MaxLevels }

WireDocs == [time : {"2026-11-01T00:00:00Z"}, prices : SeqsUpTo(WireRecords, MaxPrices)]

EmptyDoc == [time |-> "", prices |-> <<>>]

\* A response body: a JSON document of the pricing shape, bytes that are not
\* such a document, or a stream whose read fails.
PricingBodies ==
    {[kind |-> "json", doc |-> d] : d \in WireDocs}
      \cup {[kind |-> "garbage", doc |-> EmptyDoc], [kind |-> "readErr", doc |-> EmptyDoc]}

EmptyOrderResponse == [LastTransactionID |-> "", RelatedTransactionIDs |-> <<>>]

OrderDocs ==
    { [LastTransactionID |-> "6361", RelatedTransactionIDs |-> <<"6360", "6361">>],
      [LastTransactionID |-> "6360", RelatedTransactionIDs |-> <<"6360">>],
      EmptyOrderResponse }

OrderBodies ==
    {[kind |-> "json", doc |-> d] : d \in OrderDocs}
      \cup {[kind |-> "garbage", doc |-> EmptyOrderResponse],
            [kind |-> "readErr", doc |-> EmptyOrderResponse]}

StatusCodes == {200, 201, 404}

\* client.Do: a transport error, or a response with a status and a body.
NetOutcomes(bodies) ==
    {[netErr |-> TRUE, status |-> 0, body |-> [kind |-> "none", doc |-> EmptyDoc]]}
      \cup [netErr : {FALSE}, status : StatusCodes, body : bodies]

NoResp == [netErr |-> FALSE, status |-> 0, body |-> [kind |-> "none", doc |-> EmptyDoc]]

(* ----------------------------- credentials ----------------------------- *)
ZeroCreds == [AccountID |-> "", BearerToken |-> ""]

CredSet ==
    { [AccountID |-> "101-004-1", BearerToken |-> "tokA"],
      [AccountID |-> "101-004-2", BearerToken |-> "tokB"],
      [AccountID |-> "%zz", BearerToken |-> "tokA"] }

\* what config.json holds at the moment it is read
FileStates ==
    {[state |-> "missing", creds |-> ZeroCreds], [state |-> "malformed", creds |-> ZeroCreds]}
      \cup {[state |-> "ok", creds |-> c] : c \in CredSet}

Ev(e) == [ev |-> e, req |-> <<>>]

\* getCreds on a file in state f: the file operations it performs, whether
\* log.Fatal ends the process, and the credentials it returns.
getCreds(f) ==
    IF f.state = "missing"
    THEN [events |-> <<Ev("open")>>, fatal |-> TRUE, creds |-> ZeroCreds]
    ELSE IF f.state = "malformed"
    THEN [events |-> <<Ev("open"), Ev("decode")>>, fatal |-> TRUE, creds |-> ZeroCreds]
    ELSE [events |-> <<Ev("open"), Ev("decode")>>, fatal |-> FALSE, creds |-> f.creds]

(* ------------------------------ requests ------------------------------- *)
\* strings.Replace(baseURL+endpoint, "{accountID}", id, 1)
RECURSIVE ReplaceFirst(_, _, _)
ReplaceFirst(segs, old, new) ==
    IF segs = <<>> THEN <<>>
    ELSE IF Head(segs) = old THEN <<new>> \o Tail(segs)
    ELSE <<Head(segs)>> \o ReplaceFirst(Tail(segs), old, new)

MakeURL(endpoint, c) == <<baseURL>> \o ReplaceFirst(endpoint, "{accountID}", c.AccountID)

\* http.NewRequest fails when url.Parse rejects the URL
ValidURL(url) == \A i \in 1..Len(url) : url[i] # "%zz"

\* strings.Join(instruments, ",")
RECURSIVE Join(_, _)
Join(elems, sep) ==
    IF Len(elems) = 0 THEN <<>>
    ELSE IF Len(elems) = 1 THEN <<elems[1]>>
    ELSE <<elems[1], sep>> \o Join(Tail(elems), sep)

PricingRequest(c, instrs) ==
    [method |-> "GET", url |-> MakeURL(pricingEndpoint, c),
     auth |-> <<"Bearer ", c.BearerToken>>,
     query |-> Join(instrs, ","), body |-> <<>>]

\* the MarketOrderRequest built from placeMarketOrder's arguments
MarketOrderRequest(o) ==
    [order |-> [units |-> SprintfD(o.units),
                instrument |-> o.instrument,
                priceBound |-> SprintfF5(o.priceBound),
                timeInForce |-> "FOK",
                type |-> "MARKET",
                positionFill |-> "DEFAULT"]]

OrderRequestNoAuth(c, o) ==
    [method |-> "POST", url |-> MakeURL(orderEndpoint, c),
     auth |-> <<"Bearer ", "">>,
     query |-> <<>>, body |-> <<MarketOrderRequest(o)>>]

OrderRequest(c, o) ==
    [method |-> "POST", url |-> MakeURL(orderEndpoint, c),
     auth |-> <<"Bearer ", c.BearerToken>>,
     query |-> <<>>, body |-> <<MarketOrderRequest(o)>>]

Sent(r) == [ev |-> r.method, req |-> <<r>>]

(* ------------------------- pricing: decoding --------------------------- *)
\* json.Unmarshal(body, &rawResponse)
UnmarshalLevels(ls) == [k \in 1..Len(ls) |-> [Price |-> ParseFloat32[ls[k].price]]]

UnmarshalPricing(b) ==
    IF b.kind # "json"
    THEN [err |-> Err("json"), raw |-> [Time |-> "", Prices |-> <<>>]]
    ELSE [err |-> NoErr,
          raw |-> [Time |-> b.doc.time,
                   Prices |-> [i \in 1..Len(b.doc.prices) |->
                       [Instrument |-> b.doc.prices[i].instrument,
                        Tradeable |-> b.doc.prices[i].tradeable,
                        Bids |-> UnmarshalLevels(b.doc.prices[i].bids),
                        Asks |-> UnmarshalLevels(b.doc.prices[i].asks)]]]]

ZeroPrice ==
    [Instrument |-> "", Tradeable |-> FALSE, Bid |-> Fin(FALSE, 0, 0), Ask |-> Fin(FALSE, 0, 0)]

LastLevel(levels) == levels[Len(levels)].Price

\* rawPrice.Bids[0].Price / rawPrice.Asks[0].Price
BestLevel(levels) == levels[1].Price

PartialFailure(response, kind) == [resp |-> <<response>>, err |-> Err(kind)]

\* the error returns inside the loop
ParseFailure(response, kind) == [resp |-> <<>>, err |-> Err(kind)]

RECURSIVE ParseLoop(_, _, _)
ParseLoop(rawResponse, i, response) ==
    IF i > Len(rawResponse.Prices) THEN [resp |-> <<response>>, err |-> NoErr]
    ELSE LET rawPrice == rawResponse.Prices[i] IN
         IF Len(rawPrice.Bids) = 0 THEN ParseFailure(response, "noBid")
         ELSE IF Len(rawPrice.Asks) = 0 THEN ParseFailure(response, "noAsk")
         ELSE ParseLoop(rawResponse, i + 1,
                  [response EXCEPT !.Prices[i] =
                      [Instrument |-> rawPrice.Instrument,
                       Tradeable |-> rawPrice.Tradeable,
                       Bid |-> BestLevel(rawPrice.Bids),
                       Ask |-> BestLevel(rawPrice.Asks)]])

parseRawResponseReversed(rawResponse) ==
    LET n == Len(rawResponse.Prices)
        res == ParseLoop(rawResponse, 1,
                   [Time |-> rawResponse.Time, Prices |-> [i \in 1..n |-> ZeroPrice]])
    IN IF res.resp = <<>> THEN res
       ELSE [res EXCEPT !.resp[1].Prices = [i \in 1..n |-> res.resp[1].Prices[n + 1 - i]]]

parseRawResponse(rawResponse) ==
    ParseLoop(rawResponse, 1,
              [Time |-> rawResponse.Time,
               Prices |-> [i \in 1..Len(rawResponse.Prices) |-> ZeroPrice]])

PricingStatusAny2xx(s) == s \in {200, 201}

PricingStatusOK(s) == s = 200

\* getPrices from io.ReadAll on: read, status check, decode, reshape
HandlePricingResponse(r) ==
    IF r.body.kind = "readErr" THEN [resp |-> <<>>, err |-> Err("read")]
    ELSE IF ~PricingStatusOK(r.status)
    THEN [resp |-> <<>>, err |-> [kind |-> "status", code |-> r.status]]
    ELSE LET u == UnmarshalPricing(r.body) IN
         IF u.err # NoErr THEN [resp |-> <<>>, err |-> u.err]
         ELSE parseRawResponse(u.raw)

(* -------------------------- orders: decoding --------------------------- *)
OrderStatusOK(s) == s = 201

\* placeMarketOrder from io.ReadAll on: read, status check, decode
HandleOrderResponse(r) ==
    IF r.body.kind = "readErr" THEN [resp |-> <<>>, err |-> Err("read")]
    ELSE IF ~OrderStatusOK(r.status)
    THEN [resp |-> <<>>, err |-> [kind |-> "status", code |-> r.status]]
    ELSE IF r.body.kind # "json" THEN [resp |-> <<>>, err |-> Err("json")]
    ELSE [resp |-> <<r.body.doc>>, err |-> NoErr]

(* ------------------------------ getPrices ------------------------------ *)
\* creds := getCreds()
GP_GetCreds ==
    /\ pc = "gp_creds"
    /\ \E f \in FileStates :
         LET c == getCreds(f) IN
         /\ trace' = trace \o c.events
         /\ creds' = c.creds
         /\ pc' = IF c.fatal THEN "fatal" ELSE "gp_send"
    /\ UNCHANGED <<instruments, resp, pricesResponse, pricesErr, order, orderResponse, orderErr>>

\* http.NewRequest, header and query, client.Do
GP_Send ==
    /\ pc = "gp_send"
    /\ LET r == PricingRequest(creds, instruments) IN
       IF ~ValidURL(r.url)
       THEN /\ pricesErr' = Err("url")
            /\ pc' = "gp_ret"
            /\ UNCHANGED <<trace, resp>>
       ELSE /\ trace' = Append(trace, Sent(r))
            /\ \E o \in NetOutcomes(PricingBodies) :
                 IF o.netErr
                 THEN /\ pricesErr' = Err("net")
                      /\ pc' = "gp_ret"
                      /\ UNCHANGED resp
                 ELSE /\ resp' = o
                      /\ pc' = "gp_resp"
                      /\ UNCHANGED pricesErr
    /\ UNCHANGED <<instruments, creds, pricesResponse, order, orderResponse, orderErr>>

\* io.ReadAll, the status check, json.Unmarshal, parseRawResponse, return
GP_Handle ==
    /\ pc = "gp_resp"
    /\ LET res == HandlePricingResponse(resp) IN
       /\ pricesResponse' = res.resp
       /\ pricesErr' = res.err
    /\ pc' = "gp_ret"
    /\ UNCHANGED <<instruments, creds, resp, order, orderResponse, orderErr, trace>>

(* --------------------------- placeMarketOrder -------------------------- *)
PO_GetCreds ==
    /\ pc = "po_creds"
    /\ \E f \in FileStates :
         LET c == getCreds(f) IN
         /\ trace' = trace \o c.events
         /\ creds' = c.creds
         /\ pc' = IF c.fatal THEN "fatal" ELSE "po_send"
    /\ UNCHANGED <<instruments, resp, pricesResponse, pricesErr, order, orderResponse, orderErr>>

\* the order request, json.Marshal, http.NewRequest, headers, client.Do
PO_Send ==
    /\ pc = "po_send"
    /\ LET r == OrderRequest(creds, order[1]) IN
       IF ~ValidURL(r.url)
       THEN /\ orderErr' = Err("url")
            /\ pc' = "po_ret"
            /\ UNCHANGED <<trace, resp>>
       ELSE /\ trace' = Append(trace, Sent(r))
            /\ \E o \in NetOutcomes(OrderBodies) :
                 IF o.netErr
                 THEN /\ orderErr' = Err("net")
                      /\ pc' = "po_ret"
                      /\ UNCHANGED resp
                 ELSE /\ resp' = o
                      /\ pc' = "po_resp"
                      /\ UNCHANGED orderErr
    /\ UNCHANGED <<instruments, creds, pricesResponse, pricesErr, order, orderResponse>>

\* io.ReadAll, the status check, json.Unmarshal, return
PO_Handle ==
    /\ pc = "po_resp"
    /\ LET res == HandleOrderResponse(resp) IN
       /\ orderResponse' = res.resp
       /\ orderErr' = res.err
    /\ pc' = "po_ret"
    /\ UNCHANGED <<instruments, creds, resp, pricesResponse, pricesErr, order, trace>>

(* ------------------------------ EntryPoint ----------------------------- *)
DriverOrderAtBid(prices) ==
    [units |-> 1, instrument |-> "GBP_USD", priceBound |-> prices[1].Bid]

AfterOrderErrorFatal == [pc |-> "fatal", events |-> <<Ev("fatal")>>]

AfterOrderErrorRetry == [pc |-> "po_creds", events |-> <<Ev("log")>>]

\* the arguments of the driver's placeMarketOrder call
DriverOrder(prices) ==
    [units |-> 1, instrument |-> "GBP_USD", priceBound |-> prices[1].Ask]

\* what the driver does when placeMarketOrder returned an error
AfterOrderError == [pc |-> "done", events |-> <<Ev("log")>>]

\* instruments := ...; getPrices(instruments)
EP_Start ==
    /\ pc = "start"
    /\ instruments' = ExampleInstruments
    /\ pc' = "gp_creds"
    /\ UNCHANGED <<creds, resp, pricesResponse, pricesErr, order, orderResponse, orderErr, trace>>

\* the error check on getPrices, the dump, and the tradeable check
EP_AfterPrices ==
    /\ pc = "gp_ret"
    /\ IF pricesErr # NoErr
       THEN /\ trace' = Append(trace, Ev("fatal"))
            /\ pc' = "fatal"
            /\ UNCHANGED <<creds, order, resp>>
       ELSE IF Len(pricesResponse[1].Prices) = 0
       THEN \* pricesResponse.Prices[0]: index out of range
            /\ trace' = trace \o <<Ev("print"), Ev("panic")>>
            /\ pc' = "panic"
            /\ UNCHANGED <<creds, order, resp>>
       ELSE IF pricesResponse[1].Prices[1].Tradeable
       THEN /\ trace' = trace \o <<Ev("print"), Ev("placeMarketOrder")>>
            /\ order' = <<DriverOrder(pricesResponse[1].Prices)>>
            /\ creds' = ZeroCreds
            /\ resp' = NoResp
            /\ pc' = "po_creds"
       ELSE /\ trace' = trace \o <<Ev("print"), Ev("print")>>
            /\ pc' = "done"
            /\ UNCHANGED <<creds, order, resp>>
    /\ UNCHANGED <<instruments, pricesResponse, pricesErr, orderResponse, orderErr>>

\* the error check on placeMarketOrder
EP_AfterOrder ==
    /\ pc = "po_ret"
    /\ IF orderErr # NoErr
       THEN /\ trace' = trace \o AfterOrderError.events
            /\ pc' = AfterOrderError.pc
       ELSE /\ trace' = Append(trace, Ev("print"))
            /\ pc' = "done"
    /\ UNCHANGED <<instruments, creds, resp, pricesResponse, pricesErr, order, orderResponse, orderErr>>

(* --------------------------- specifications ---------------------------- *)
Zero ==
    /\ instruments = <<>>
    /\ creds = ZeroCreds
    /\ resp = NoResp
    /\ pricesResponse = <<>>
    /\ pricesErr = NoErr
    /\ order = <<>>
    /\ orderResponse = <<>>
    /\ orderErr = NoErr
    /\ trace = <<>>

\* one run of the driver
Init == pc = "start" /\ Zero

Next ==
    \/ EP_Start
    \/ GP_GetCreds
    \/ GP_Send
    \/ GP_Handle
    \/ EP_AfterPrices
    \/ PO_GetCreds
    \/ PO_Send
    \/ PO_Handle
    \/ EP_AfterOrder

Spec == Init /\ [][Next]_vars

\* one call of getPrices or of placeMarketOrder, on any arguments
ReqLists ==
    { <<>>, <<"GBP_USD">>, <<"GBP_USD", "EUR_GBP">>, <<"EUR_GBP", "GBP_USD">>,
      ExampleInstruments }

F32Args ==
    { Fin(FALSE, 10066330, 23), Fin(FALSE, 8388607, 23), Fin(TRUE, 1, 23),
      Fin(FALSE, 0, 0), Fin(TRUE, 0, 0), Fin(FALSE, 1, 6), Fin(FALSE, 3, 6),
      Fin(TRUE, 5, 2), Fin(FALSE, 261, 1), Fin(FALSE, 20001, 8),
      NaN, Inf(FALSE), Inf(TRUE) }

OrderArgs ==
    [units : (-MaxUnits)..MaxUnits, instrument : {"GBP_USD", "EUR_GBP", ""}, priceBound : F32Args]

InitCalls ==
    \/ /\ pc = "gp_creds"
       /\ instruments \in ReqLists
       /\ order = <<>>
       /\ creds = ZeroCreds /\ resp = NoResp /\ pricesResponse = <<>> /\ pricesErr = NoErr
       /\ orderResponse = <<>> /\ orderErr = NoErr /\ trace = <<>>
    \/ /\ pc = "po_creds"
       /\ instruments = <<>>
       /\ \E o \in OrderArgs : order = <<o>>
       /\ creds = ZeroCreds /\ resp = NoResp /\ pricesResponse = <<>> /\ pricesErr = NoErr
       /\ orderResponse = <<>> /\ orderErr = NoErr /\ trace = <<>>

NextCalls ==
    \/ GP_GetCreds
    \/ GP_Send
    \/ GP_Handle
    \/ PO_GetCreds
    \/ PO_Send
    \/ PO_Handle

SpecCalls == InitCalls /\ [][NextCalls]_vars

(* ============================= properties ============================== *)
Count(tr, e) == Cardinality({i \in 1..Len(tr) : tr[i].ev = e})

\* getPrices has returned after receiving response `resp` with a readable body
GotPricing == pc = "gp_ret" /\ ~resp.netErr /\ resp.status # 0

\* the payload json.Unmarshal hands to parseRawResponse
Raw == UnmarshalPricing(resp.body).raw

Reshaped == GotPricing /\ resp.status = 200 /\ resp.body.kind = "json"

AllHaveLevels(raw) ==
    \A i \in 1..Len(raw.Prices) : Len(raw.Prices[i].Bids) >= 1 /\ Len(raw.Prices[i].Asks) >= 1

\* C1: a payload whose records all have a bid and an ask level is reshaped
\* into one record per input record, in order, each copying instrument and
\* tradeable flag and taking the first bid and the first ask; time is copied.
C1_ReshapeFirstLevels ==
    (Reshaped /\ AllHaveLevels(Raw)) =>
        /\ pricesErr = NoErr
        /\ Len(pricesResponse) = 1
        /\ pricesResponse[1].Time = Raw.Time
        /\ Len(pricesResponse[1].Prices) = Len(Raw.Prices)
        /\ \A i \in 1..Len(Raw.Prices) :
             /\ pricesResponse[1].Prices[i].Instrument = Raw.Prices[i].Instrument
             /\ pricesResponse[1].Prices[i].Tradeable = Raw.Prices[i].Tradeable
             /\ pricesResponse[1].Prices[i].Bid = Raw.Prices[i].Bids[1].Price
             /\ pricesResponse[1].Prices[i].Ask = Raw.Prices[i].Asks[1].Price

C1_Witness ==
    /\ Reshaped /\ AllHaveLevels(Raw)
    /\ Len(Raw.Prices) = 2
    /\ Raw.Prices[1].Instrument # Raw.Prices[2].Instrument
    /\ Len(Raw.Prices[1].Bids) = 2 /\ Len(Raw.Prices[2].Asks) = 2
    /\ Raw.Prices[1].Bids[1] # Raw.Prices[1].Bids[2]
    /\ pricesErr = NoErr

\* C2: a payload with a record lacking a bid or an ask level yields an error
\* and a nil response, wherever the record sits; getPrices returns the same.
C2_NoPartialOutput ==
    (Reshaped /\ ~AllHaveLevels(Raw)) =>
        /\ pricesErr.kind \in {"noBid", "noAsk"}
        /\ pricesResponse = <<>>

C2_Witness ==
    /\ Reshaped
    /\ Len(Raw.Prices) = 2
    /\ Len(Raw.Prices[1].Bids) >= 1 /\ Len(Raw.Prices[1].Asks) >= 1
    /\ Len(Raw.Prices[2].Bids) >= 1 /\ Len(Raw.Prices[2].Asks) = 0
    /\ pricesErr.kind = "noAsk"
    /\ pricesResponse = <<>>

GotOrder == pc = "po_ret" /\ ~resp.netErr /\ resp.status # 0

\* C3 as stated: every status other than 200 (pricing) or 201 (order) gives
\* an error carrying that status and no result, whatever the body.
C3_StatusErrorAlways ==
    /\ (GotPricing /\ resp.status # 200) =>
          (pricesErr = [kind |-> "status", code |-> resp.status] /\ pricesResponse = <<>>)
    /\ (GotOrder /\ resp.status # 201) =>
          (orderErr = [kind |-> "status", code |-> resp.status] /\ orderResponse = <<>>)

\* C3 amended: a status other than 200 (pricing) or 201 (order) always gives
\* an error and no result, whatever the body; the error carries the status
\* whenever the body could be read to its end.
C3_StatusError ==
    /\ (GotPricing /\ resp.status # 200) =>
          /\ pricesResponse = <<>>
          /\ pricesErr # NoErr
          /\ resp.body.kind # "readErr" =>
                pricesErr = [kind |-> "status", code |-> resp.status]
    /\ (GotOrder /\ resp.status # 201) =>
          /\ orderResponse = <<>>
          /\ orderErr # NoErr
          /\ resp.body.kind # "readErr" =>
                orderErr = [kind |-> "status", code |-> resp.status]

C3_Witness ==
    /\ GotPricing
    /\ resp.status = 201
    /\ resp.body.kind = "json"
    /\ Len(resp.body.doc.prices) = 1
    /\ AllHaveLevels(Raw)
    /\ pricesErr = [kind |-> "status", code |-> 201]
    /\ pricesResponse = <<>>

\* the instruments of the response's records, in the response's order
QuotedInOrder == [i \in 1..Len(Raw.Prices) |-> Raw.Prices[i].Instrument]

OneLevelEach ==
    \A i \in 1..Len(Raw.Prices) : Len(Raw.Prices[i].Bids) = 1 /\ Len(Raw.Prices[i].Asks) = 1

Returned == [i \in 1..Len(pricesResponse[1].Prices) |-> pricesResponse[1].Prices[i].Instrument]

\* C8 as stated: on a 200 response with one record (one bid, one ask level)
\* for each requested instrument, getPrices returns one record per requested
\* instrument, in the order of the request.
C8_RequestOrder ==
    ( /\ Reshaped /\ OneLevelEach
      /\ Len(Raw.Prices) = Len(instruments)
      /\ \A i \in 1..Len(instruments) : \E j \in 1..Len(Raw.Prices) : QuotedInOrder[j] = instruments[i] )
    => (pricesErr = NoErr /\ Len(pricesResponse) = 1 /\ Returned = instruments)

\* C8 amended: on a 200 response with one bid and one ask level per record,
\* getPrices returns one record per record of the response, in the order of
\* the response; the result follows the order of the request exactly when
\* the response does.
C8_ResponseOrder ==
    (Reshaped /\ OneLevelEach) =>
        /\ pricesErr = NoErr
        /\ Len(pricesResponse) = 1
        /\ Returned = QuotedInOrder
        /\ (Returned = instruments) <=> (QuotedInOrder = instruments)

C8_Witness ==
    /\ Reshaped /\ OneLevelEach
    /\ instruments = <<"GBP_USD", "EUR_GBP">>
    /\ QuotedInOrder = <<"EUR_GBP", "GBP_USD">>
    /\ pricesErr = NoErr
    /\ Returned = <<"EUR_GBP", "GBP_USD">>

(* ----------------------- the order request body ------------------------ *)
OrderSent == pc \in {"po_resp", "po_ret"} /\ trace # <<>> /\ trace[Len(trace)].ev = "POST"

SentOrder == trace[Len(trace)].req[1].body[1].order

IsDigit(c) == \E d \in 1..10 : DigitChar[d] = c

DigitVal(c) == (CHOOSE d \in 1..10 : DigitChar[d] = c) - 1

AllDigits(t) == t # <<>> /\ \A i \in 1..Len(t) : IsDigit(t[i])

NoLeadingZero(t) == Len(t) = 1 \/ t[1] # "0"

RECURSIVE TextToNat(_)
TextToNat(t) ==
    IF t = <<>> THEN 0
    ELSE TextToNat(SubSeq(t, 1, Len(t) - 1)) * 10 + DigitVal(t[Len(t)])

\* t is the signed decimal integer text of u
IsIntegerText(u, t) ==
    LET digits == IF u < 0 THEN Tail(t) ELSE t IN
    /\ t # <<>>
    /\ u < 0 => t[1] = "-"
    /\ AllDigits(digits) /\ NoLeadingZero(digits)
    /\ TextToNat(digits) = (IF u < 0 THEN -u ELSE u)

Abs(x) == IF x < 0 THEN -x ELSE x

\* ip.fr (fr of five digits) is a decimal nearest to m / 2^e, the even one
\* of the two when m / 2^e lies halfway
NearestFiveDecimals(m, e, ip, fr) ==
    LET den == 2 ^ e
        d == (ip - (m \div den)) * 100000 + fr
        off == 2 * Abs(d * den - (m % den) * 100000)
    IN off < den \/ (off = den /\ fr % 2 = 0)

\* t is v written with a sign when negative, an integer part, a point and
\* exactly five decimals
HasFiveDecimals(v, t) ==
    LET digits == IF v.neg THEN Tail(t) ELSE t
        n == Len(digits)
        ip == SubSeq(digits, 1, n - 6)
        fr == SubSeq(digits, n - 4, n)
    IN /\ t # <<>>
       /\ v.neg => t[1] = "-"
       /\ n >= 7
       /\ digits[n - 5] = "."
       /\ AllDigits(ip) /\ NoLeadingZero(ip) /\ AllDigits(fr)
       /\ (v.cls = "fin" /\ v.e <= 8) => NearestFiveDecimals(v.m, v.e, TextToNat(ip), TextToNat(fr))

OrderBodyFixedPart ==
    /\ IsIntegerText(order[1].units, SentOrder.units)
    /\ order[1].units = 1 => SentOrder.units = <<"1">>
    /\ SentOrder.instrument = order[1].instrument
    /\ SentOrder.timeInForce = "FOK"
    /\ SentOrder.type = "MARKET"
    /\ SentOrder.positionFill = "DEFAULT"
    /\ order[1].priceBound = Fin(FALSE, 10066330, 23) =>
          SentOrder.priceBound = <<"1", ".", "2", "0", "0", "0", "0">>
    /\ order[1].priceBound = Fin(FALSE, 8388607, 23) =>
          SentOrder.priceBound = <<"1", ".", "0", "0", "0", "0", "0">>

\* C9 as stated: for every unit count, instrument and price bound the body
\* sent has units as signed decimal text, priceBound with exactly five
\* decimals, the instrument verbatim, and FOK / MARKET / DEFAULT.
C9_OrderBodyAnyBound ==
    OrderSent =>
        /\ OrderBodyFixedPart
        /\ HasFiveDecimals(order[1].priceBound, SentOrder.priceBound)

\* C9 amended: the same, for every finite price bound (NaN and the
\* infinities are written "NaN", "+Inf" and "-Inf").
C9_OrderBody ==
    OrderSent =>
        /\ OrderBodyFixedPart
        /\ order[1].priceBound.cls = "fin" =>
              HasFiveDecimals(order[1].priceBound, SentOrder.priceBound)

C9_Witness ==
    /\ OrderSent
    /\ order[1].units < -9
    /\ order[1].priceBound = Fin(FALSE, 3, 6)
    /\ SentOrder.priceBound = <<"0", ".", "0", "4", "6", "8", "8">>
    /\ SentOrder.units[1] = "-"

(* ------------------------------ the driver ----------------------------- *)
FetchOK == pricesResponse # <<>> /\ pricesErr = NoErr

Prices1 == pricesResponse[1].Prices

\* C4: after a successful fetch, a first record with tradeable=false means no
\* order request; tradeable=true means exactly one placement, of 1 unit,
\* bounded at that record's ask.
C4_TradeableGate ==
    (FetchOK /\ Len(Prices1) >= 1) =>
        IF Prices1[1].Tradeable
        THEN /\ Count(trace, "placeMarketOrder") = (IF pc = "gp_ret" THEN 0 ELSE 1)
             /\ Count(trace, "POST") <= 1
             /\ pc # "gp_ret" =>
                   /\ Len(order) = 1
                   /\ order[1].units = 1
                   /\ order[1].priceBound = Prices1[1].Ask
             /\ \A i \in 1..Len(trace) : trace[i].ev = "POST" =>
                   /\ trace[i].req[1].body[1].order.units = <<"1">>
                   /\ trace[i].req[1].body[1].order.priceBound = SprintfF5(Prices1[1].Ask)
        ELSE /\ Count(trace, "placeMarketOrder") = 0
             /\ Count(trace, "POST") = 0
             /\ order = <<>>

C4_Witness ==
    /\ pc = "done"
    /\ FetchOK /\ Len(Prices1) = 2
    /\ Prices1[1].Tradeable /\ ~Prices1[2].Tradeable
    /\ Prices1[1].Ask # Prices1[2].Ask
    /\ Count(trace, "POST") = 1
    /\ orderErr = NoErr

C5_Step ==
    /\ pricesErr' # NoErr => (Count(trace', "POST") = 0 /\ pc' \in {"gp_ret", "fatal"})
    /\ (pc = "gp_ret" /\ pricesErr # NoErr) => pc' = "fatal"
    /\ (pc = "po_ret" /\ orderErr # NoErr) =>
          (pc' = "done" /\ trace' = Append(trace, Ev("log")))
    /\ pc \in {"fatal", "done"} => FALSE

\* C5: a failed pricing fetch halts the run and no order request follows; a
\* failed order placement is logged only, nothing is sent again, and the
\* run then ends normally.
C5_FailureHandling == [][C5_Step]_vars

C5_Witness ==
    /\ pc = "done"
    /\ orderErr.kind = "status"
    /\ trace[Len(trace)] = Ev("log")
    /\ Count(trace, "POST") = 1

\* C6: a run sends at most one pricing GET and at most one order POST, and a
\* POST only after the GET of the same run completed successfully.
C6_TwoRoundTrips ==
    /\ Count(trace, "GET") <= 1
    /\ Count(trace, "POST") <= 1
    /\ \A i \in 1..Len(trace) : trace[i].ev = "POST" =>
          /\ \E j \in 1..(i - 1) : trace[j].ev = "GET"
          /\ FetchOK

C6_Witness ==
    /\ pc = "done"
    /\ Count(trace, "GET") = 1
    /\ Count(trace, "POST") = 1
    /\ orderErr.kind = "net"

IsRequest(e) == e.ev \in {"GET", "POST"}

\* C7 as stated: config.json is opened and decoded once per run, before the
\* first request, and every request of the run carries the same credentials.
C7_ReadOnce ==
    /\ Count(trace, "open") <= 1
    /\ Count(trace, "decode") <= 1
    /\ \A i \in 1..Len(trace) : IsRequest(trace[i]) =>
          /\ \E j \in 1..(i - 1) : trace[j].ev = "decode"
          /\ \A k \in 1..Len(trace) : IsRequest(trace[k]) =>
                /\ trace[k].req[1].auth = trace[i].req[1].auth
                /\ trace[k].req[1].url[3] = trace[i].req[1].url[3]

\* C7 amended: config.json is opened and decoded once by each API call
\* (getPrices, then placeMarketOrder), at most twice in a run, each time
\* right before that call's request; a request carries the credentials its
\* own call loaded.
C7_ReadPerCall ==
    /\ Count(trace, "open") =
          (IF pc \in {"start", "gp_creds"} THEN 0 ELSE 1)
            + (IF Count(trace, "placeMarketOrder") = 1 /\ pc # "po_creds" THEN 1 ELSE 0)
    /\ Count(trace, "decode") <= Count(trace, "open")
    /\ \A i \in 1..Len(trace) : IsRequest(trace[i]) =>
          /\ i >= 3
          /\ trace[i - 2].ev = "open"
          /\ trace[i - 1].ev = "decode"
    /\ (trace # <<>> /\ IsRequest(trace[Len(trace)])) =>
          /\ trace[Len(trace)].req[1].auth = <<"Bearer ", creds.BearerToken>>
          /\ trace[Len(trace)].req[1].url[3] = creds.AccountID

C7_Witness ==
    /\ pc = "done"
    /\ Count(trace, "open") = 2
    /\ \E i, k \in 1..Len(trace) :
          /\ trace[i].ev = "GET" /\ trace[k].ev = "POST"
          /\ trace[i].req[1].auth # trace[k].req[1].auth

\* C10: whenever getPrices returned without error, the response holds at
\* least one price record when the driver reads Prices[0].
C10_PricesNonEmpty ==
    /\ (pc = "gp_ret" /\ pricesErr = NoErr) => Len(Prices1) >= 1
    /\ pc # "panic"
====
